---------------------------- MODULE Spec2Model ----------------------------
(***************************************************************************)
(* A model of the resumable file fetcher of mne/utils.py (_fetch_file and  *)
(* _chunk_read_): one destination directory holding the final file and    *)
(* its ".part" temp file, the activations of _fetch_file (the fallback    *)
(* calls itself, so each caller owns a stack of frames), and the remote   *)
(* transports (urllib2 stream, ftplib control connection) as environment. *)
(*                                                                         *)
(* Files are written through: a write on an open handle reaches the file  *)
(* at once (stdio buffering is not modelled).                              *)
(***************************************************************************)
EXTENDS Integers, Sequences, FiniteSets, TLC

\* ------------------------------------------------------------------ bounds
RemoteLen == 3        \* bytes of the remote file
ChunkBytes == 2       \* most bytes one read / recv delivers (chunk_size, scaled)
MaxCalls == 2         \* top-level _fetch_file calls one caller makes

\* ----------------------------------------------------------------- values
Remote == [i \in 1..RemoteLen |-> i]      \* the remote content, byte by byte
Callers == {1}                            \* one fetch per destination at a time

NoFile == [exists |-> FALSE, data |-> <<>>]
File(d) == [exists |-> TRUE, data |-> d]

\* lines 868-871: the two paths of a fetch.  Every URL of Paths has the
\* basename "a".
DataDir == "data_dir"
FileName == "a"
Join(d, f) == d \o "/" \o f              \* os.path.join
TempFileName == FileName \o ".part"
FullName == Join(DataDir, FileName)
TempName == Join(DataDir, TempFileName)
\* a file of data_dir that is neither of the two
OtherFile == File(<<0>>)

Schemes == {"http", "ftp"}
\* URL paths, character by character; all of them name the file "a"
RootPath == <<"/", "a">>
NestedPath == <<"/", "a", "%", "6", "2", "/", "a">>
Paths == {RootPath, NestedPath}
\* the exception classes the handlers of _fetch_file tell apart; every other
\* class (ftplib.Error, socket.error, IOError, AttributeError, TypeError)
\* is OtherError
ErrKinds == {"HTTPError", "URLError", "OtherError"}
Headers == {"valid", "unparsable", "absent"}

Min(a, b) == IF a < b THEN a ELSE b

\* os.path.basename: what follows the last "/"
LastSlash(s) ==
  IF \E i \in 1..Len(s) : s[i] = "/"
  THEN CHOOSE i \in 1..Len(s) : s[i] = "/" /\ \A j \in (i+1)..Len(s) : s[j] # "/"
  ELSE 0
Basename(s) == SubSeq(s, LastSlash(s) + 1, Len(s))

\* str.replace(old, ""): every occurrence of old is removed, left to right
RECURSIVE Replace(_, _)
Replace(s, old) ==
  IF old = <<>> \/ Len(s) < Len(old) THEN s
  ELSE IF SubSeq(s, 1, Len(old)) = old
       THEN Replace(SubSeq(s, Len(old) + 1, Len(s)), old)
       ELSE <<Head(s)>> \o Replace(Tail(s), old)

\* urllib.unquote: "%" followed by two hex digits becomes the character
\* they encode; any other "%" stays
HexToChr == (<<"6", "2">> :> "b") @@ (<<"6", "1">> :> "a")
RECURSIVE Unquote(_)
Unquote(s) ==
  IF s = <<>> THEN <<>>
  ELSE IF Head(s) = "%" /\ Len(s) >= 3 /\ <<s[2], s[3]>> \in DOMAIN HexToChr
       THEN <<HexToChr[<<s[2], s[3]>>]>> \o Unquote(SubSeq(s, 4, Len(s)))
       ELSE <<Head(s)>> \o Unquote(Tail(s))

\* lines 890-892: g_path = parsed_url.path.replace(b_path, "")
GPath(path) == Replace(path, Basename(path))
IsPrefix(s, t) == Len(s) <= Len(t) /\ s = SubSeq(t, 1, Len(s))

RECURSIVE Digest(_, _)
Digest(d, h) == IF d = <<>> THEN h
                ELSE Digest(Tail(d), (h * 31 + Head(d)) % 65536)

\* the digest of a file's content; None (no md5sum argument) is -1
Md5SumFile(f) == Digest(f.data, 7)
None == -1
GoodSum == Digest(Remote, 7)
BadSum == Digest(<<0>>, 7)
Md5Args == {None, GoodSum, BadSum}

VARIABLES
  disk,     \* [full, temp, other]: the files of data_dir at FullName, at
            \* TempName and at any other name
  stack,    \* stack[p]: the activations of _fetch_file of caller p, innermost last
  call,     \* call[p]: arguments and outcome of p's current top-level call,
            \* and how the call before it compares (same, prevStatus).
            \* lastErr is the last exception raised and not caught, xferPos
            \* the bytes of the content on disk when a transfer raised it,
            \* prevLeft the xferPos of the call before when that call raised.
  ncalls,   \* top-level calls started so far
  bar,      \* a ProgressBar instance and what its last update rendered
  fmt,      \* an argument of sizeof_fmt and the string it returns
  logger,   \* the 'mne' logger: its level and its handlers
  dec,      \* the activations of functions wrapped by verbose, innermost last
  environ,  \* os.environ, restricted to the preference keys
  config,   \* the mne-python.json file
  res       \* what the last get_config / set_config call returned or raised

fetchVars == <<disk, stack, call, ncalls>>
others == <<bar, fmt, logger, dec, environ, config, res>>
vars == <<disk, stack, call, ncalls, bar, fmt, logger, dec, environ, config, res>>

\* a component that a specification leaves out
Unused == "unused"

\* ----------------------------------------------------------------- frames
Frame(resume, overwrite, md5sum) ==
  [pc |-> "check_full", resume |-> resume, overwrite |-> overwrite,
   md5sum |-> md5sum, local_file |-> "none", node |-> "none", initial_size |-> 0,
   local_file_size |-> 0, pos |-> 0, header |-> "none", cmds |-> <<>>,
   bytes_so_far |-> 0, chunks |-> <<>>, reports |-> <<>>,
   exc |-> "none", ret |-> "none"]

IdleCall ==
  [scheme |-> "http", path |-> RootPath, resume |-> FALSE, overwrite |-> FALSE, md5sum |-> None,
   status |-> "idle", result |-> "none", nconn |-> 0, installed |-> FALSE,
   verified |-> FALSE, k |-> -1, prefix |-> FALSE, appended |-> <<>>,
   exchFailed |-> FALSE, fallbacks |-> 0,
   lastErr |-> "none", xferPos |-> -1,
   same |-> FALSE, prevStatus |-> "idle", prevNet |-> FALSE, prevLeft |-> -1]

Args(c) == <<c.scheme, c.path, c.resume, c.overwrite, c.md5sum>>

Running(p) == stack[p] # <<>>
Top(p) == stack[p][Len(stack[p])]
At(p, l) == Running(p) /\ Top(p).pc = l
SetTop(p, f) == [stack EXCEPT ![p] = [@ EXCEPT ![Len(@)] = f]]

Init ==
  /\ disk = [full |-> NoFile, temp |-> NoFile, other |-> OtherFile]
  /\ stack = [p \in Callers |-> <<>>]
  /\ call = [p \in Callers |-> IdleCall]
  /\ ncalls = 0
  /\ bar = Unused /\ fmt = Unused /\ logger = Unused /\ dec = Unused
  /\ environ = Unused /\ config = Unused /\ res = Unused

\* The activation on top of p's stack ends: it returns val (status
\* "returned") or raises the exception val (status "raised").  The outermost
\* activation ends the call; an inner one hands its result to line 911 of
\* its caller, whose "return" and whose handlers both lead into the finally
\* clause (lines 936-939).
Complete(p, status, val, c) ==
  IF Len(stack[p]) = 1
  THEN /\ stack' = [stack EXCEPT ![p] = <<>>]
       /\ call' = [call EXCEPT ![p] = [c EXCEPT !.status = status, !.result = val]]
  ELSE /\ stack' = [stack EXCEPT ![p] =
                      Append(SubSeq(@, 1, Len(@) - 2),
                             [@[Len(@) - 1] EXCEPT
                                !.pc = "finally",
                                !.ret = IF status = "returned" THEN val ELSE "none",
                                !.exc = IF status = "raised" THEN val ELSE "none"])]
       /\ call' = [call EXCEPT ![p] = c]

\* Raise with the "raise" of line 929 missing: the HTTPError handler prints
\* and falls through
RaiseSwallowsHttp(p, e) ==
  SetTop(p, [Top(p) EXCEPT !.pc = "finally",
                           !.exc = IF e = "HTTPError" THEN "none" ELSE e])

\* The activation f once control has left the transfer of lines 886-917 for
\* good: its position in the stream, its sizes and the logs of what it sent
\* and read are not read again; the handle local_file is (lines 937-939).
Left(f) == [f EXCEPT !.pos = 0, !.header = "none", !.cmds = <<>>,
                     !.initial_size = 0, !.local_file_size = 0,
                     !.bytes_so_far = 0, !.chunks = <<>>, !.reports = <<>>]

\* An exception of class e leaves the try block of lines 883-923: the handlers
\* of lines 924-935 print and re-raise HTTPError and URLError, every other
\* class passes them by; the finally clause runs next in each case.
Raise(p, e) == SetTop(p, [Left(Top(p)) EXCEPT !.pc = "finally", !.exc = e])

Goto(p, l) == SetTop(p, [Top(p) EXCEPT !.pc = l])

\* an ftplib request: the command and its argument as text
Cmd(c, a) == [cmd |-> c, arg |-> a]

\* ------------------------------------------------------------ open files
\* An open handle stays with its file when the file is renamed or unlinked:
\* node tells where the file behind local_file is now, at the temp path, at
\* the final path, or at no path at all.
Nodes == {"temp", "full", "gone"}
Unlinked(name) == [n \in Nodes |-> IF n = name THEN "gone" ELSE n]
Renamed == [n \in Nodes |-> IF n = "temp" THEN "full" ELSE "gone"]

\* the stacks st after the files behind the open handles have moved as m says
Relink(st, m) ==
  [q \in DOMAIN st |->
     [i \in 1..Len(st[q]) |->
        IF st[q][i].local_file = "open"
        THEN [st[q][i] EXCEPT !.node = m[@]] ELSE st[q][i]]]

\* write(chunk) through a handle opened "ab": the bytes go to the end of the file
WriteEnd(d, f, chunk) ==
  IF f.node \in {"temp", "full"}
  THEN [d EXCEPT ![f.node] = File(@.data \o chunk)] ELSE d

\* write(chunk) through a handle opened "wb" that has written off bytes: the
\* bytes go to offset off, after a gap of zeros when the file is shorter
WriteAt(d, f, off, chunk) ==
  IF f.node \in {"temp", "full"}
  THEN LET old == d[f.node].data
           gap == [i \in 1..(off - Len(old)) |-> 0]
           head == IF Len(old) >= off THEN SubSeq(old, 1, off) ELSE old \o gap
           rest == SubSeq(old, off + Len(chunk) + 1, Len(old)) IN
       [d EXCEPT ![f.node] = File(head \o chunk \o rest)]
  ELSE d

\* ---------------------------------------------------------------- actions
\* a caller invokes _fetch_file(url, data_dir, resume, overwrite, md5sum);
\* data_dir exists from here on (lines 865-866), and call[p].nconn counts the
\* connections the call tries to open
Call(p) ==
  /\ ~Running(p)
  /\ ncalls < MaxCalls
  /\ \E s \in Schemes, d \in Paths, r \in BOOLEAN, o \in BOOLEAN, m \in Md5Args :
       /\ stack' = [stack EXCEPT ![p] = <<Frame(r, o, m)>>]
       /\ call' = [call EXCEPT ![p] =
                     [IdleCall EXCEPT !.scheme = s, !.path = d, !.resume = r,
                                      !.overwrite = o, !.md5sum = m,
                                      !.status = "running",
                                      !.same = (<<s, d, r, o, m>> = Args(call[p])),
                                      !.prevStatus = call[p].status,
                                      !.prevNet = (call[p].nconn > 0),
                                      !.prevLeft = IF call[p].status = "raised"
                                                   THEN call[p].xferPos ELSE -1]]
  /\ ncalls' = ncalls + 1
  /\ UNCHANGED disk
  /\ UNCHANGED others

\* ReturnExisting without its return: the existing file is fetched again
ReturnExistingRefetch(p) ==
  /\ At(p, "check_full")
  /\ disk.full.exists /\ ~Top(p).overwrite
  /\ stack' = Goto(p, "check_temp")
  /\ UNCHANGED <<disk, call, ncalls>>
  /\ UNCHANGED others

\* ReturnExisting with the test of overwrite inverted: the file is removed
ReturnExistingInverted(p) ==
  /\ At(p, "check_full")
  /\ disk.full.exists /\ ~Top(p).overwrite
  /\ disk' = [disk EXCEPT !.full = NoFile]
  /\ stack' = Goto(p, "check_temp")
  /\ UNCHANGED <<call, ncalls>>
  /\ UNCHANGED others

\* lines 872, 875-876: the final file exists and overwrite is false
ReturnExisting(p) ==
  /\ At(p, "check_full")
  /\ disk.full.exists /\ ~Top(p).overwrite
  /\ Complete(p, "returned", FullName, call[p])
  /\ UNCHANGED <<disk, ncalls>>
  /\ UNCHANGED others

\* lines 872-874: the final file exists and overwrite is true
RemoveExisting(p) ==
  /\ At(p, "check_full")
  /\ disk.full.exists /\ Top(p).overwrite
  /\ disk' = [disk EXCEPT !.full = NoFile]
  /\ stack' = Relink(Goto(p, "check_temp"), Unlinked("full"))
  /\ UNCHANGED <<call, ncalls>>
  /\ UNCHANGED others

\* line 872: the final file does not exist
NoExisting(p) ==
  /\ At(p, "check_full")
  /\ ~disk.full.exists
  /\ stack' = Goto(p, "check_temp")
  /\ UNCHANGED <<disk, call, ncalls>>
  /\ UNCHANGED others

\* CheckTemp without lines 878-879: a stale temp file is kept
CheckTempKeeps(p) ==
  /\ At(p, "check_temp")
  /\ stack' = Goto(p, "decide")
  /\ UNCHANGED <<disk, call, ncalls>>
  /\ UNCHANGED others

\* lines 877-879: a stale temp file is removed when overwrite is true
CheckTemp(p) ==
  /\ At(p, "check_temp")
  /\ disk' = IF disk.temp.exists /\ Top(p).overwrite
             THEN [disk EXCEPT !.temp = NoFile] ELSE disk
  /\ stack' = IF disk.temp.exists /\ Top(p).overwrite
              THEN Relink(Goto(p, "decide"), Unlinked("temp"))
              ELSE Goto(p, "decide")
  /\ UNCHANGED <<call, ncalls>>
  /\ UNCHANGED others

\* DecideResume without the test that the temp file exists
DecideResumeIgnoresTemp(p) ==
  /\ At(p, "decide")
  /\ stack' = Goto(p, IF Top(p).resume THEN "ftp_connect" ELSE "urlopen")
  /\ UNCHANGED <<disk, call, ncalls>>
  /\ UNCHANGED others

\* line 886 (and the else of line 913)
DecideResume(p) ==
  /\ At(p, "decide")
  /\ stack' = Goto(p, IF Top(p).resume /\ disk.temp.exists
                      THEN "ftp_connect" ELSE "urlopen")
  /\ UNCHANGED <<disk, call, ncalls>>
  /\ UNCHANGED others

\* ------------------------------------------------- the resume path (FTP)
\* lines 888-893: data = ftplib.FTP(); data.connect(hostname, port).  The
\* branch is taken whatever the scheme of the URL is.
FtpConnect(p) ==
  /\ At(p, "ftp_connect")
  /\ stack' = SetTop(p, [Top(p) EXCEPT !.pc = "ftp_login",
                                       !.cmds = Append(@, Cmd("connect", <<>>))])
  /\ call' = [call EXCEPT ![p].nconn = @ + 1]
  /\ UNCHANGED <<disk, ncalls>>
  /\ UNCHANGED others

\* line 894: data.login()
FtpLogin(p) ==
  /\ At(p, "ftp_login")
  /\ stack' = SetTop(p, [Top(p) EXCEPT !.pc = "ftp_cwd",
                                       !.cmds = Append(@, Cmd("login", <<>>))])
  /\ UNCHANGED <<disk, call, ncalls>>
  /\ UNCHANGED others

\* lines 895-896: data.cwd(unquoted_g_path) when len(g_path) > 1
FtpCwd(p) ==
  /\ At(p, "ftp_cwd")
  /\ stack' = SetTop(p, [Top(p) EXCEPT
                  !.pc = "getsize",
                  !.cmds = IF Len(GPath(call[p].path)) > 1
                           THEN Append(@, Cmd("cwd", Unquote(GPath(call[p].path))))
                           ELSE @])
  /\ UNCHANGED <<disk, call, ncalls>>
  /\ UNCHANGED others

\* lines 893-896 raise: these lines are outside the inner try
FtpFails(p) ==
  /\ Running(p) /\ Top(p).pc \in {"ftp_connect", "ftp_login", "ftp_cwd"}
  /\ \E e \in ErrKinds :
       /\ stack' = Raise(p, e)
       /\ call' = [call EXCEPT
                     ![p].nconn = IF Top(p).pc = "ftp_connect" THEN @ + 1 ELSE @,
                     ![p].lastErr = e]
  /\ UNCHANGED <<disk, ncalls>>
  /\ UNCHANGED others

\* line 898: local_file_size = os.path.getsize(temp_full_name)
GetSize(p) ==
  /\ At(p, "getsize")
  /\ stack' = IF disk.temp.exists
              THEN SetTop(p, [Top(p) EXCEPT !.pc = "type_i",
                                !.local_file_size = Len(disk.temp.data)])
              ELSE Raise(p, "OtherError")
  /\ UNCHANGED <<disk, call, ncalls>>
  /\ UNCHANGED others

\* line 901: data.sendcmd("TYPE I")
SendTypeI(p) ==
  /\ At(p, "type_i")
  /\ stack' = SetTop(p, [Top(p) EXCEPT !.pc = "rest",
                                       !.cmds = Append(@, Cmd("TYPE I", <<>>))])
  /\ UNCHANGED <<disk, call, ncalls>>
  /\ UNCHANGED others

\* line 902: data.sendcmd("REST " + str(local_file_size)); the server will
\* send from that offset
SendRest(p) ==
  /\ At(p, "rest")
  /\ stack' = SetTop(p, [Top(p) EXCEPT
                  !.pc = "open_ab",
                  !.pos = Top(p).local_file_size,
                  !.cmds = Append(@, Cmd("REST", <<ToString(Top(p).local_file_size)>>))])
  /\ UNCHANGED <<disk, call, ncalls>>
  /\ UNCHANGED others

\* OpenAppend with mode "wb" in place of "ab": the partial file is truncated
OpenAppendTruncates(p) ==
  /\ At(p, "open_ab")
  /\ disk' = [disk EXCEPT !.temp = File(<<>>)]
  /\ stack' = SetTop(p, [Top(p) EXCEPT !.pc = "retr", !.local_file = "open", !.node = "temp",
                                       !.initial_size = Top(p).local_file_size])
  /\ call' = [call EXCEPT ![p].k = Top(p).local_file_size,
                          ![p].prefix = /\ IsPrefix(disk.temp.data, Remote)
                                        /\ Len(disk.temp.data) = Top(p).local_file_size]
  /\ UNCHANGED ncalls
  /\ UNCHANGED others

\* lines 905-906: local_file = open(temp_full_name, "ab");
\* initial_size = local_file_size
OpenAppend(p) ==
  /\ At(p, "open_ab")
  /\ disk' = IF disk.temp.exists THEN disk ELSE [disk EXCEPT !.temp = File(<<>>)]
  /\ stack' = SetTop(p, [Top(p) EXCEPT !.pc = "retr", !.local_file = "open", !.node = "temp",
                                       !.initial_size = Top(p).local_file_size])
  /\ call' = [call EXCEPT ![p].k = Top(p).local_file_size,
                          ![p].prefix = /\ IsPrefix(disk.temp.data, Remote)
                                        /\ Len(disk.temp.data) = Top(p).local_file_size]
  /\ UNCHANGED ncalls
  /\ UNCHANGED others

\* line 907: data.retrbinary("RETR " + file_name, ...) sends the command;
\* file_name is the basename of the URL (line 868)
RetrSend(p) ==
  /\ At(p, "retr")
  /\ stack' = SetTop(p, [Top(p) EXCEPT !.pc = "retr_data",
                                       !.cmds = Append(@, Cmd("RETR", Basename(call[p].path)))])
  /\ UNCHANGED <<disk, call, ncalls>>
  /\ UNCHANGED others

\* line 907: retrbinary hands each block received to local_file.write,
\* which appends it to the temp file
RetrBlock(p) ==
  /\ At(p, "retr_data")
  /\ \E n \in 1..Min(ChunkBytes, RemoteLen - Top(p).pos) :
       LET chunk == SubSeq(Remote, Top(p).pos + 1, Top(p).pos + n) IN
       /\ disk' = WriteEnd(disk, Top(p), chunk)
       /\ stack' = SetTop(p, [Top(p) EXCEPT !.pos = @ + n])
       /\ call' = [call EXCEPT ![p].appended = @ \o chunk]
  /\ UNCHANGED ncalls
  /\ UNCHANGED others

\* line 907: retrbinary returns once the server has sent the whole remainder
\* and acknowledged the transfer
RetrDone(p) ==
  /\ At(p, "retr_data")
  /\ Top(p).pos >= RemoteLen
  /\ stack' = Goto(p, "close")
  /\ UNCHANGED <<disk, call, ncalls>>
  /\ UNCHANGED others

\* lines 900-912: an exception inside the inner try.  Only urllib2.HTTPError
\* is caught (line 908) and leads to the fallback; every other class leaves
\* the try block.
ResumeFails(p) ==
  /\ Running(p) /\ Top(p).pc \in {"type_i", "rest", "open_ab", "retr", "retr_data"}
  /\ \E e \in ErrKinds :
       /\ stack' = IF e = "HTTPError"
                   THEN SetTop(p, [Left(Top(p)) EXCEPT !.pc = "fallback"])
                   ELSE Raise(p, e)
       /\ call' = [call EXCEPT
                     ![p].exchFailed = TRUE,
                     ![p].lastErr = IF e = "HTTPError" THEN "none" ELSE e,
                     ![p].xferPos = IF e # "HTTPError" /\ Top(p).pc = "retr_data"
                                    THEN Top(p).pos ELSE -1]
  /\ UNCHANGED <<disk, ncalls>>
  /\ UNCHANGED others

\* Fallback passing resume on to the call instead of resume=False
FallbackResumes(p) ==
  /\ At(p, "fallback")
  /\ stack' = [stack EXCEPT ![p] =
                 Append([@ EXCEPT ![Len(@)].pc = "fallback_call"],
                        Frame(Top(p).resume, FALSE, None))]
  /\ call' = [call EXCEPT ![p].fallbacks = @ + 1]
  /\ UNCHANGED <<disk, ncalls>>
  /\ UNCHANGED others

\* lines 911-912: return _fetch_file(url, data_dir, resume=False,
\* overwrite=False); md5sum and verbose take their defaults
Fallback(p) ==
  /\ At(p, "fallback")
  /\ stack' = [stack EXCEPT ![p] =
                 Append([@ EXCEPT ![Len(@)].pc = "fallback_call"],
                        Frame(FALSE, FALSE, None))]
  /\ call' = [call EXCEPT ![p].fallbacks = @ + 1]
  /\ UNCHANGED <<disk, ncalls>>
  /\ UNCHANGED others

\* -------------------------------------------------- the full download
\* line 914: data = urllib2.urlopen(url); the response carries a
\* Content-Length header that parses, one that does not, or none
UrlOpen(p) ==
  /\ At(p, "urlopen")
  /\ \E h \in Headers :
       stack' = SetTop(p, [Top(p) EXCEPT !.pc = "open_wb", !.pos = 0,
                                         !.header = h])
  /\ call' = [call EXCEPT ![p].nconn = @ + 1]
  /\ UNCHANGED <<disk, ncalls>>
  /\ UNCHANGED others

\* line 914 raises
UrlOpenFails(p) ==
  /\ At(p, "urlopen")
  /\ \E e \in ErrKinds :
       /\ stack' = Raise(p, e)
       /\ call' = [call EXCEPT ![p].nconn = @ + 1, ![p].lastErr = e]
  /\ UNCHANGED <<disk, ncalls>>
  /\ UNCHANGED others

\* OpenWrite opening full_name in place of temp_full_name
OpenWriteFinal(p) ==
  /\ At(p, "open_wb")
  /\ disk' = [disk EXCEPT !.full = File(<<>>)]
  /\ stack' = SetTop(p, [Top(p) EXCEPT !.pc = "chunk_init", !.local_file = "open",
                                       !.node = "temp"])
  /\ UNCHANGED <<call, ncalls>>
  /\ UNCHANGED others

\* OpenWrite waiting until no other caller has the temp file open
OpenWriteExclusive(p) ==
  /\ At(p, "open_wb")
  /\ \A q \in DOMAIN stack : \A i \in 1..Len(stack[q]) :
       q # p => stack[q][i].local_file # "open"
  /\ disk' = [disk EXCEPT !.temp = File(<<>>)]
  /\ stack' = SetTop(p, [Top(p) EXCEPT !.pc = "chunk_init", !.local_file = "open",
                                       !.node = "temp"])
  /\ UNCHANGED <<call, ncalls>>
  /\ UNCHANGED others

\* line 915: local_file = open(temp_full_name, "wb") creates or truncates
OpenWrite(p) ==
  /\ At(p, "open_wb")
  /\ disk' = [disk EXCEPT !.temp = File(<<>>)]
  /\ stack' = SetTop(p, [Top(p) EXCEPT !.pc = "chunk_init", !.local_file = "open",
                                       !.node = "temp"])
  /\ UNCHANGED <<call, ncalls>>
  /\ UNCHANGED others

\* _chunk_read_, lines 796-805: the total size, "None" when it is unknown.
\* A missing header makes getheader return None, and None.strip() raises
\* before the try of line 798 is entered.
TotalSize(header, initial_size) ==
  CASE header = "valid" -> [raises |-> FALSE, known |-> TRUE,
                            size |-> RemoteLen + initial_size]
    [] header = "unparsable" -> [raises |-> FALSE, known |-> FALSE, size |-> 0]
    [] OTHER -> [raises |-> TRUE, known |-> FALSE, size |-> 0]

\* ProgressBar.__init__, line 700: float(max_value) raises for None
ProgressBarInitRaises(total) == ~total.known

\* _chunk_read_, lines 796-811, called with report_hook=True (line 916)
ChunkReadInit(p) ==
  /\ At(p, "chunk_init")
  /\ LET total == TotalSize(Top(p).header, Top(p).initial_size) IN
     stack' = IF total.raises \/ ProgressBarInitRaises(total)
              THEN SetTop(p, [Top(p) EXCEPT !.pc = "finally", !.header = "none",
                                            !.exc = "OtherError"])
              ELSE SetTop(p, [Top(p) EXCEPT !.pc = "read", !.header = "none",
                                            !.bytes_so_far = Top(p).initial_size])
  /\ UNCHANGED <<disk, call, ncalls>>
  /\ UNCHANGED others

\* _chunk_read_, lines 813-823: a non-empty chunk of at most chunk_size bytes
\* is read, counted, written to the temp file and reported:
\* progress.update(bytes_so_far).  chunks and reports log the chunks read and
\* the values reported.
ReadChunk(p) ==
  /\ At(p, "read")
  /\ \E n \in 1..Min(ChunkBytes, RemoteLen - Top(p).pos) :
       LET chunk == SubSeq(Remote, Top(p).pos + 1, Top(p).pos + n) IN
       /\ disk' = WriteAt(disk, Top(p), Top(p).pos, chunk)
       /\ stack' = SetTop(p, [Top(p) EXCEPT
                       !.pos = @ + n,
                       !.bytes_so_far = @ + Len(chunk),
                       !.chunks = Append(@, chunk),
                       !.reports = Append(@, Top(p).bytes_so_far + Len(chunk))])
  /\ UNCHANGED <<call, ncalls>>
  /\ UNCHANGED others

\* ReadEnd reporting progress for the zero-length read as well
ReadEndReports(p) ==
  /\ At(p, "read")
  /\ stack' = SetTop(p, [Top(p) EXCEPT !.pc = "close",
                                       !.reports = Append(@, Top(p).bytes_so_far)])
  /\ UNCHANGED <<disk, call, ncalls>>
  /\ UNCHANGED others

\* _chunk_read_, lines 813-819: a zero-length read adds nothing to
\* bytes_so_far and ends the loop without a write or a report.  The stream
\* delivers it at the end of the content, or earlier when the connection is
\* closed early; the loop does not tell the two apart.
ReadEnd(p) ==
  /\ At(p, "read")
  /\ stack' = Goto(p, "close")
  /\ UNCHANGED <<disk, call, ncalls>>
  /\ UNCHANGED others

\* ReadFails with the temp file removed on the way out, as the docstring has it
ReadFailsCleans(p) ==
  /\ At(p, "read")
  /\ \E e \in ErrKinds :
       /\ stack' = Raise(p, e)
       /\ call' = [call EXCEPT ![p].lastErr = e, ![p].xferPos = Top(p).pos]
  /\ disk' = [disk EXCEPT !.temp = NoFile]
  /\ UNCHANGED ncalls
  /\ UNCHANGED others

\* line 813 raises
ReadFails(p) ==
  /\ At(p, "read")
  /\ \E e \in ErrKinds :
       /\ stack' = Raise(p, e)
       /\ call' = [call EXCEPT ![p].lastErr = e, ![p].xferPos = Top(p).pos]
  /\ UNCHANGED <<disk, ncalls>>
  /\ UNCHANGED others

\* ------------------------------------------------------------ install
\* lines 918-920: the temp file is closed prior to the move
CloseFile(p) ==
  /\ At(p, "close")
  /\ stack' = SetTop(p, [Top(p) EXCEPT !.pc = "move", !.local_file = "closed", !.node = "none",
                                       !.bytes_so_far = 0, !.chunks = <<>>,
                                       !.reports = <<>>])
  /\ UNCHANGED <<disk, call, ncalls>>
  /\ UNCHANGED others

\* line 921: shutil.move(temp_full_name, full_name)
Move(p) ==
  /\ At(p, "move")
  /\ IF disk.temp.exists
     THEN /\ disk' = [disk EXCEPT !.full = disk.temp, !.temp = NoFile]
          /\ stack' = Relink(Goto(p, "finally"), Renamed)
          /\ call' = [call EXCEPT ![p].installed = TRUE]
     ELSE /\ stack' = Raise(p, "OtherError")
          /\ UNCHANGED <<disk, call>>
  /\ UNCHANGED ncalls
  /\ UNCHANGED others

\* lines 936-939, then what was pending: the exception is raised, the value
\* of line 911 is returned, or the function goes on to line 940
Finally(p) ==
  /\ At(p, "finally")
  /\ LET closed == [stack EXCEPT ![p] =
                      [@ EXCEPT ![Len(@)].local_file =
                                   IF @ = "open" THEN "closed" ELSE @,
                                ![Len(@)].node = "none"]] IN
     IF Top(p).exc # "none"
     THEN Complete(p, "raised", Top(p).exc, call[p])
     ELSE IF Top(p).ret # "none"
     THEN Complete(p, "returned", Top(p).ret, call[p])
     ELSE /\ stack' = [closed EXCEPT ![p] = [@ EXCEPT ![Len(@)].pc = "md5"]]
          /\ UNCHANGED call
  /\ UNCHANGED <<disk, ncalls>>
  /\ UNCHANGED others

\* lines 940-944: the checksum of the final file is compared when md5sum is
\* given; a mismatch raises ValueError, otherwise full_name is returned
Md5Check(p) ==
  /\ At(p, "md5")
  /\ IF Top(p).md5sum = None
     THEN Complete(p, "returned", FullName, call[p])
     ELSE IF ~disk.full.exists
     THEN Complete(p, "raised", "OtherError", call[p])
     ELSE IF Md5SumFile(disk.full) # Top(p).md5sum
     THEN Complete(p, "raised", "ValueError", call[p])
     ELSE Complete(p, "returned", FullName, [call[p] EXCEPT !.verified = TRUE])
  /\ UNCHANGED <<disk, ncalls>>
  /\ UNCHANGED others

\* the steps of a call of p once it has started: lines 872-886, the resume
\* branch (888-912), the full download (914-917), and lines 918-944
Resolve(p) ==
    \/ ReturnExisting(p) \/ RemoveExisting(p) \/ NoExisting(p)
    \/ CheckTemp(p) \/ DecideResume(p)

ResumeDownload(p) ==
    \/ FtpConnect(p) \/ FtpLogin(p) \/ FtpCwd(p) \/ FtpFails(p)
    \/ GetSize(p) \/ SendTypeI(p) \/ SendRest(p) \/ OpenAppend(p)
    \/ RetrSend(p) \/ RetrBlock(p) \/ RetrDone(p) \/ ResumeFails(p)
    \/ Fallback(p)

FullDownload(p) ==
    \/ UrlOpen(p) \/ UrlOpenFails(p) \/ OpenWrite(p) \/ ChunkReadInit(p)
    \/ ReadChunk(p) \/ ReadEnd(p) \/ ReadFails(p)

Install(p) ==
    \/ CloseFile(p) \/ Move(p) \/ Finally(p) \/ Md5Check(p)

Transfer(p) == Resolve(p) \/ ResumeDownload(p) \/ FullDownload(p) \/ Install(p)

Next == \E p \in Callers : Call(p) \/ Transfer(p)

Spec == Init /\ [][Next]_vars

\* The same program when every step that can be taken is taken in the end:
\* the interpreter runs on, and each blocking call of the transport returns
\* or raises.
LiveSpec == Init /\ [][Next]_vars /\ WF_vars(Next)

\* ------------------------------------------------- two concurrent callers
\* Two callers (threads or processes) fetch the same url into the same
\* data_dir; nothing in lines 829-944 takes a lock.
Fetchers == {1, 2}

\* the one call of _fetch_file(url, data_dir, resume=False, overwrite)
\* fetcher p makes, with the url and the data_dir every fetcher uses
ConcCall(p) ==
  /\ ~Running(p) /\ call[p].status = "idle"
  /\ \E o \in BOOLEAN :
       /\ stack' = [stack EXCEPT ![p] = <<Frame(FALSE, o, None)>>]
       /\ call' = [call EXCEPT ![p] =
                     [IdleCall EXCEPT !.overwrite = o,
                                      !.status = "running",
                                      !.prevStatus = call[p].status]]
  /\ ncalls' = ncalls + 1
  /\ UNCHANGED disk
  /\ UNCHANGED others

ConcInit ==
  /\ disk = [full |-> NoFile, temp |-> NoFile, other |-> OtherFile]
  /\ stack = [p \in Fetchers |-> <<>>]
  /\ call = [p \in Fetchers |-> IdleCall]
  /\ ncalls = 0
  /\ bar = Unused /\ fmt = Unused /\ logger = Unused /\ dec = Unused
  /\ environ = Unused /\ config = Unused /\ res = Unused

\* with resume false the resume branch is never entered
ConcNext ==
  \E p \in Fetchers : ConcCall(p) \/ Resolve(p) \/ FullDownload(p) \/ Install(p)

ConcSpec == ConcInit /\ [][ConcNext]_vars

\* ------------------------------------------------------------ properties
Done(p) == ~Running(p) /\ call[p].status \in {"returned", "raised"}

\* C1: in a call that supplies md5sum, a downloaded file is present at the
\* final path only once its digest has been compared equal to md5sum.
C1_FinalOnlyAfterVerification ==
  \A p \in Callers :
    (call[p].md5sum # None /\ call[p].installed /\ disk.full.exists)
      => call[p].verified

\* C2: a call that supplies md5sum and completes a download raises the
\* checksum error when the digest of the transferred bytes differs from
\* md5sum, and returns the final path when it matches, on every path.
C2_ChecksumGate ==
  \A p \in Callers :
    (Done(p) /\ call[p].md5sum # None /\ call[p].installed /\ disk.full.exists)
      => IF Md5SumFile(disk.full) = call[p].md5sum
         THEN call[p].status = "returned" /\ call[p].result = FullName
         ELSE call[p].status = "raised" /\ call[p].result = "ValueError"

\* C3: the final path either does not exist or holds the complete remote
\* content.
C3_Atomicity ==
  disk.full.exists => disk.full.data = Remote

\* C4: a call that repeats the arguments of the call before it, which
\* returned, with overwrite false, opens no connection and returns the final
\* path.
C4_Idempotent ==
  \A p \in Callers :
    (call[p].same /\ call[p].prevStatus = "returned" /\ ~call[p].overwrite)
      => /\ call[p].nconn = 0
         /\ Done(p) => (call[p].status = "returned" /\ call[p].result = FullName)

C4_Witness ==
  \E p \in Callers :
    /\ call[p].same /\ call[p].prevStatus = "returned" /\ call[p].prevNet
    /\ ~call[p].overwrite /\ Done(p) /\ call[p].result = FullName

\* C5: when the FTP resume exchange fails, the error is not propagated: the
\* call falls back exactly once to a full download and returns when that
\* download succeeds.
C5_ResumeFallback ==
  \A p \in Callers :
    (Done(p) /\ call[p].exchFailed)
      => /\ call[p].fallbacks = 1
         /\ call[p].installed => call[p].status = "returned"

\* C6: a call whose URL scheme is not ftp never attempts the FTP resume: no
\* activation of it is on the FTP path or has issued an FTP command.
C6_NoFtpForHttp ==
  \A p \in Callers :
    call[p].scheme # "ftp"
      => \A i \in 1..Len(stack[p]) :
           /\ stack[p][i].cmds = <<>>
           /\ stack[p][i].pc # "ftp_connect"

\* C7: a resumed fetch that starts from a temp file of k bytes, a prefix of
\* the remote content, appends exactly the remote bytes from offset k on, and
\* the file it installs is the remote content.
C7_ResumeCorrect ==
  \A p \in Callers :
    (call[p].installed /\ call[p].k >= 0 /\ call[p].prefix /\ call[p].fallbacks = 0)
      => /\ call[p].appended = SubSeq(Remote, call[p].k + 1, RemoteLen)
         /\ Len(call[p].appended) = RemoteLen - call[p].k
         /\ disk.full.exists
         /\ Len(disk.full.data) = RemoteLen
         /\ disk.full.data = Remote

C7_Witness ==
  \E p \in Callers :
    /\ call[p].installed /\ call[p].prefix /\ call[p].fallbacks = 0
    /\ call[p].k > 0 /\ call[p].k < RemoteLen
    /\ Done(p) /\ call[p].status = "returned"

C9_SuccessPost ==
  \A p \in Callers :
    (Done(p) /\ call[p].status = "returned" /\ call[p].installed)
      => /\ call[p].result = FullName
         /\ disk.full.exists
         /\ Len(disk.full.data) = RemoteLen
         /\ ~disk.temp.exists

\* C10: after a call has raised, no downloaded data remain: neither the temp
\* file nor a final file installed by the call.
C10_CleanOnFailure ==
  \A p \in Callers :
    (Done(p) /\ call[p].status = "raised")
      => /\ ~disk.temp.exists
         /\ ~(call[p].installed /\ disk.full.exists)

HttpPcs == {"urlopen", "open_wb", "chunk_init", "read"}
FtpPcs == {"ftp_connect", "ftp_login", "ftp_cwd", "getsize", "type_i", "rest",
           "open_ab", "retr", "retr_data", "fallback", "fallback_call"}

C13_ErrorsSurface ==
  \A p \in Callers :
    /\ (Done(p) /\ call[p].lastErr # "none")
         => (call[p].status = "raised" /\ call[p].result = call[p].lastErr)
    /\ (Running(p) /\ call[p].lastErr # "none")
         => \E i \in 1..Len(stack[p]) :
              stack[p][i].pc = "finally" /\ stack[p][i].exc = call[p].lastErr

C13_Witness ==
  \E p \in Callers :
    /\ Done(p) /\ call[p].lastErr = "HTTPError" /\ call[p].result = "HTTPError"
    /\ call[p].fallbacks = 1

\* the step of caller p's innermost activation from label a to label b
Step(p, a, b) ==
  /\ At(p, a) /\ Running(p)' /\ Len(stack'[p]) = Len(stack[p])
  /\ Top(p)'.pc = b

\* C14: past the short circuit, the resume path is taken exactly when resume
\* is true and the temp file exists; it sends REST with the size of the temp
\* file and opens the file for append with initial_size that size.  Every
\* other case is a full download: the temp file is created or truncated and
\* the transfer starts at offset 0.
C14_ResumeDecision ==
  [][\A p \in Callers :
       /\ (At(p, "decide") /\ stack'[p] # stack[p])
            => Step(p, "decide", IF Top(p).resume /\ disk.temp.exists
                                 THEN "ftp_connect" ELSE "urlopen")
       /\ Step(p, "rest", "open_ab")
            => /\ Top(p)'.cmds[Len(Top(p)'.cmds)] = Cmd("REST", <<ToString(Len(disk.temp.data))>>)
               /\ Top(p)'.pos = Len(disk.temp.data)
       /\ Step(p, "open_ab", "retr")
            => /\ disk' = disk
               /\ Top(p)'.initial_size = Len(disk.temp.data)
               /\ Top(p)'.local_file = "open"
       /\ Step(p, "open_wb", "chunk_init")
            => /\ disk'.temp = File(<<>>) /\ disk'.full = disk.full
               /\ Top(p)'.initial_size = 0 /\ Top(p)'.pos = 0
               /\ Top(p)'.local_file = "open"]_vars

C14_Witness ==
  \E p \in Callers :
    /\ At(p, "retr") /\ Top(p).resume /\ Top(p).initial_size > 0
    /\ Len(disk.temp.data) = Top(p).initial_size

\* C15: a call with overwrite true has removed the final file and the temp
\* file before it opens any connection; it never takes the resume path and
\* transfers from offset 0, whatever resume is.
C15_Overwrite ==
  \A p \in Callers :
    (Running(p) /\ call[p].overwrite)
      => /\ Len(stack[p]) = 1
         /\ Top(p).overwrite
         /\ Top(p).pc \notin FtpPcs
         /\ Top(p).cmds = <<>>
         /\ Top(p).initial_size = 0
         /\ call[p].k = -1 /\ call[p].fallbacks = 0
         /\ Top(p).pc \in {"check_full", "check_temp", "decide", "urlopen"}
              => call[p].nconn = 0
         /\ Top(p).pc \in {"decide", "urlopen"}
              => ~disk.full.exists /\ ~disk.temp.exists
         /\ Top(p).pc = "check_temp" => ~disk.full.exists

C15_Witness ==
  \E p \in Callers :
    /\ At(p, "urlopen") /\ call[p].overwrite /\ call[p].resume
    /\ call[p].prevLeft > 0
    /\ ~disk.temp.exists

\* C16: the temp file handle opened by an activation is closed before any
\* further transition: before the rename, and before a fallback download
\* reopens the temp path (no activation is suspended in the call of line 911
\* with its handle still open).
C16_ClosedBeforeTransition ==
  \A p \in Callers :
    Running(p)
      => /\ \A i \in 1..(Len(stack[p]) - 1) : stack[p][i].local_file # "open"
         /\ Top(p).pc = "move" => Top(p).local_file # "open"

\* the directory of a URL path: everything up to its last "/"
DirName(path) == SubSeq(path, 1, LastSlash(path))

\* the requests of the resume path as lines 893-907 issue them
IssuedCmds(path, size) ==
  <<Cmd("connect", <<>>), Cmd("login", <<>>)>>
    \o (IF Len(GPath(path)) > 1 THEN <<Cmd("cwd", Unquote(GPath(path)))>> ELSE <<>>)
    \o <<Cmd("TYPE I", <<>>), Cmd("REST", <<ToString(size)>>),
         Cmd("RETR", Basename(path))>>

\* the requests of the resume path in the order of the FTP resume protocol
ProtocolCmds(path, size) ==
  <<Cmd("connect", <<>>), Cmd("login", <<>>)>>
    \o (IF Len(DirName(path)) > 1 THEN <<Cmd("cwd", Unquote(DirName(path)))>> ELSE <<>>)
    \o <<Cmd("TYPE I", <<>>), Cmd("REST", <<ToString(size)>>),
         Cmd("RETR", Basename(path))>>

\* C17: on the resume path the requests are connect, login, cwd to the
\* percent-decoded directory of the URL when it is non-trivial, TYPE I,
\* REST <size>, RETR <file name>, in that order, and the REST argument is the
\* size of the temp file measured before it is opened for append.
C17_FtpOrder ==
  \A p \in Callers : \A i \in 1..Len(stack[p]) :
    LET f == stack[p][i] IN
    /\ IsPrefix(f.cmds, ProtocolCmds(call[p].path, f.local_file_size))
    /\ f.pc \in {"type_i", "rest", "open_ab"}
         => f.local_file_size = Len(disk.temp.data)

\* the order and the REST argument of C17 with the directory lines 890-892
\* compute
FtpOrderAsIssued ==
  \A p \in Callers : \A i \in 1..Len(stack[p]) :
    LET f == stack[p][i] IN
    /\ IsPrefix(f.cmds, IssuedCmds(call[p].path, f.local_file_size))
    /\ f.pc \in {"type_i", "rest", "open_ab"}
         => f.local_file_size = Len(disk.temp.data)

\* C18: in a full download whose response carries no Content-Length, or one
\* that is not an integer, the total size is unknown and the transfer goes
\* on to read the stream; no error is raised for the missing size.
C18_UnknownTotalSize ==
  [][\A p \in Callers :
       (/\ At(p, "chunk_init")
        /\ Top(p).header \in {"unparsable", "absent"}
        /\ stack'[p] # stack[p])
         => /\ Step(p, "chunk_init", "read")
            /\ Top(p)'.exc = "none"]_vars

RECURSIVE Flatten(_)
Flatten(ss) == IF ss = <<>> THEN <<>> ELSE Head(ss) \o Flatten(Tail(ss))

\* an activation inside _chunk_read_, or just back from it (line 916)
InDrain(f) == f.pc = "read" \/ (f.pc = "close" /\ f.cmds = <<>>)

\* C19: _chunk_read_ reads chunks of at most chunk_size bytes, writes every
\* non-empty chunk to the local file in order, keeps bytes_so_far at
\* initial_size plus the bytes read so far, and reports that value once per
\* non-empty chunk and never for the zero-length read that ends the loop.
C19_ChunkedDrain ==
  \A p \in Callers :
    (Running(p) /\ InDrain(Top(p)))
      => LET f == Top(p) IN
         /\ \A i \in 1..Len(f.chunks) :
              Len(f.chunks[i]) >= 1 /\ Len(f.chunks[i]) <= ChunkBytes
         /\ disk.temp.exists /\ disk.temp.data = Flatten(f.chunks)
         /\ f.bytes_so_far = f.initial_size + Len(Flatten(f.chunks))
         /\ Len(f.reports) = Len(f.chunks)
         /\ \A i \in 1..Len(f.reports) :
              f.reports[i] = f.initial_size + Len(Flatten(SubSeq(f.chunks, 1, i)))

C19_Witness ==
  \E p \in Callers :
    /\ At(p, "close") /\ Len(Top(p).chunks) >= 2
    /\ Flatten(Top(p).chunks) = Remote
    /\ Top(p).reports[Len(Top(p).reports)] = RemoteLen

\* C20: the temp path is the final path plus ".part", so the two are
\* distinct paths of the same directory; the file at the final path changes
\* only by the removal of line 874 or by the rename of the temp file
\* (line 921), every other write goes to the temp path, and no other file
\* of the directory is created, written or deleted.
C20_WriteConfinement ==
  [][/\ TempName # FullName
     /\ TempName = FullName \o ".part"
     /\ disk'.other = disk.other
     /\ disk'.full # disk.full
          => \E p \in Callers :
               \/ /\ At(p, "check_full") /\ Top(p).overwrite
                  /\ disk'.full = NoFile /\ disk'.temp = disk.temp
               \/ /\ At(p, "move") /\ Top(p).local_file = "closed"
                  /\ disk'.full = disk.temp /\ disk'.temp = NoFile]_vars

C20_Witness ==
  \E p \in Callers :
    /\ Done(p) /\ call[p].status = "returned" /\ call[p].installed
    /\ call[p].overwrite /\ call[p].prevStatus = "returned"
    /\ disk.full = File(Remote) /\ ~disk.temp.exists /\ disk.other = OtherFile

\* C21: two fetches of the same url into the same data_dir are not
\* synchronized: a call that has started can always take its next step,
\* whatever the other call is doing to the same temp file.  The witness is
\* the corruption this allows: a call that has read the whole content has
\* installed a final file that differs from it, and the other call still
\* writes to that file and has no temp file left to rename.
C21_Unsynchronized ==
  \A p \in Fetchers :
    Running(p) => ENABLED (Resolve(p) \/ FullDownload(p) \/ Install(p))

C21_Witness ==
  \E p \in Fetchers, q \in Fetchers :
    /\ p # q
    /\ At(p, "md5") /\ Top(p).pos = RemoteLen /\ call[p].installed
    /\ disk.full.exists /\ disk.full.data # Remote
    /\ Running(q) /\ Top(q).local_file = "open" /\ Top(q).node = "full"
    /\ ~disk.temp.exists

\* ------------------------------------------------------------ ProgressBar
\* Bounds of the ProgressBar specification: the largest max_value, the
\* width max_chars, and the number of updates followed.
BarMaxValue == 3
BarChars == 4
BarUpdates == 6

\* str * n: n copies, none when n is not positive
Repeat(n) == IF n > 0 THEN n ELSE 0

\* ProgressBar.__init__, lines 697-706; updates counts the calls of update,
\* out is what the last one wrote: the numbers of progress characters and of
\* spaces between the brackets
ProgressBarInit(initial_value, max_value, max_chars, spinner) ==
  [cur_value |-> initial_value, max_value |-> max_value, max_chars |-> max_chars,
   spinner |-> spinner, spinner_index |-> 0, n_spinner |-> 4,
   updates |-> 0, out |-> [written |-> FALSE, chars |-> 0, spaces |-> 0]]

\* ProgressBar.update advancing the spinner without the modulo of line 744
UpdateNoWrap(b, cur_value) ==
  [b EXCEPT !.cur_value = cur_value,
            !.spinner_index = IF b.spinner THEN @ + 1 ELSE @,
            !.updates = @ + 1]

\* ProgressBar.update, lines 708-748, for cur_value >= 0 and max_value > 0:
\* num_chars = int(cur_value / max_value * max_chars), num_left =
\* max_chars - num_chars; the quotient is taken exactly
Update(b, cur_value) ==
  LET num_chars == (cur_value * b.max_chars) \div b.max_value
      num_left == b.max_chars - num_chars IN
  [b EXCEPT !.cur_value = cur_value,
            !.out = [written |-> TRUE, chars |-> Repeat(num_chars),
                     spaces |-> Repeat(num_left)],
            !.spinner_index = IF b.spinner THEN (@ + 1) % b.n_spinner ELSE @,
            !.updates = @ + 1]

\* ProgressBar.update_with_increment_value, lines 750-765
UpdateWithIncrementValue(b, increment_value) ==
  Update([b EXCEPT !.cur_value = @ + increment_value],
         b.cur_value + increment_value)

BarInit ==
  /\ disk = [full |-> NoFile, temp |-> NoFile, other |-> OtherFile]
  /\ stack = [p \in Callers |-> <<>>]
  /\ call = [p \in Callers |-> IdleCall]
  /\ ncalls = 0
  /\ \E iv \in 0..1, mv \in 1..BarMaxValue, sp \in BOOLEAN :
       bar = ProgressBarInit(iv, mv, BarChars, sp)
  /\ fmt = Unused /\ logger = Unused /\ dec = Unused
  /\ environ = Unused /\ config = Unused /\ res = Unused

\* a caller passes any value from 0 up to one above max_value
BarUpdate ==
  /\ bar.updates < BarUpdates
  /\ \E v \in 0..(BarMaxValue + 1) : bar' = Update(bar, v)
  /\ UNCHANGED <<fetchVars, fmt, logger, dec, environ, config, res>>

BarIncrement ==
  /\ bar.updates < BarUpdates
  /\ \E d \in 0..1 :
       /\ bar.cur_value + d <= BarMaxValue + 1
       /\ bar' = UpdateWithIncrementValue(bar, d)
  /\ UNCHANGED <<fetchVars, fmt, logger, dec, environ, config, res>>

BarNext == BarUpdate \/ BarIncrement

BarSpec == BarInit /\ [][BarNext]_vars

\* C22: spinner_index stays in 0..3; with the spinner enabled it is the
\* number of updates so far modulo 4, and with the spinner disabled it is 0.
C22_Spinner ==
  /\ bar.spinner_index \in 0..3
  /\ bar.spinner => bar.spinner_index = bar.updates % 4
  /\ ~bar.spinner => bar.spinner_index = 0

C22_Witness ==
  bar.spinner /\ bar.updates = 5 /\ bar.spinner_index = 1

\* C23: every update renders exactly max_chars characters between the
\* brackets, floor(max_chars * cur_value / max_value) progress characters
\* followed by spaces, also for values above max_value.
C23_FixedWidth ==
  bar.out.written
    => /\ bar.out.chars + bar.out.spaces = bar.max_chars
       /\ bar.out.chars = (bar.max_chars * bar.cur_value) \div bar.max_value

\* -------------------------------------------------------------- sizeof_fmt
\* Bounds of the sizeof_fmt specification: the byte counts 0..FmtSmall and
\* those within FmtNear of 1024, 1024^2 and 1024^3 are formatted.
FmtSmall == 40
FmtNear == 3

Base == 1024
\* 1024 ** exponent for the exponents whose power a 32-bit integer holds
Pow1024 == <<1, Base, Base * Base, Base * Base * Base>>
SizeArgs ==
  (0..FmtSmall) \cup {Pow1024[k + 1] + d : k \in 1..3, d \in (0 - FmtNear)..FmtNear}

\* line 976-977: unit_list, the unit and the number of decimals per exponent
unit_list ==
  <<[unit |-> "bytes", num_decimals |-> 0], [unit |-> "kB", num_decimals |-> 0],
    [unit |-> "MB", num_decimals |-> 1], [unit |-> "GB", num_decimals |-> 2],
    [unit |-> "TB", num_decimals |-> 2], [unit |-> "PB", num_decimals |-> 2]>>

\* int(log(num, 1024)) for 1 < num < 2^31: the largest e with 1024^e <= num
IntLog(num) ==
  CHOOSE e \in 0..3 : Pow1024[e + 1] <= num /\ (e = 3 \/ num < Pow1024[e + 2])

\* a / b rounded to the nearest integer, ties to the even one, as format
\* rounds the last digit it prints
RoundHalfEven(a, b) ==
  LET q == a \div b
      r == a % b IN
  IF 2 * r < b THEN q
  ELSE IF 2 * r > b THEN q + 1
  ELSE IF q % 2 = 0 THEN q ELSE q + 1

Pow10(n) == IF n = 0 THEN 1 ELSE IF n = 1 THEN 10 ELSE 100

\* '{:.Nf}'.format(num / 1024 ** exponent) as the integer that the digits
\* printed spell: the quotient times 10^N, rounded
Shown(num, exponent, num_decimals) ==
  (num \div Pow1024[exponent + 1]) * Pow10(num_decimals)
    + RoundHalfEven((num % Pow1024[exponent + 1]) * Pow10(num_decimals),
                    Pow1024[exponent + 1])

\* sizeof_fmt, lines 974-988: the string returned, as the digits, the number
\* of decimals among them, and the unit
sizeof_fmt(num) ==
  IF num > 1
  THEN LET exponent == Min(IntLog(num), Len(unit_list) - 1)
           u == unit_list[exponent + 1] IN
       [digits |-> Shown(num, exponent, u.num_decimals),
        num_decimals |-> u.num_decimals, unit |-> u.unit, exponent |-> exponent]
  ELSE IF num = 0
  THEN [digits |-> 0, num_decimals |-> 0, unit |-> "bytes", exponent |-> 0]
  ELSE [digits |-> 1, num_decimals |-> 0, unit |-> "byte", exponent |-> 0]

NoString == [digits |-> 0, num_decimals |-> 0, unit |-> "none", exponent |-> 0]

FmtInit ==
  /\ disk = [full |-> NoFile, temp |-> NoFile, other |-> OtherFile]
  /\ stack = [p \in Callers |-> <<>>]
  /\ call = [p \in Callers |-> IdleCall]
  /\ ncalls = 0
  /\ \E n \in SizeArgs : fmt = [num |-> n, out |-> NoString]
  /\ bar = Unused /\ logger = Unused /\ dec = Unused
  /\ environ = Unused /\ config = Unused /\ res = Unused

SizeofFmt ==
  /\ fmt.out = NoString
  /\ fmt' = [fmt EXCEPT !.out = sizeof_fmt(fmt.num)]
  /\ UNCHANGED <<fetchVars, bar, logger, dec, environ, config, res>>

FmtNext == SizeofFmt

FmtSpec == FmtInit /\ [][FmtNext]_vars

\* C24: for num >= 2 the unit is the largest 1024-based one whose quotient
\* is at least 1, and the quotient shown is in [1, 1024); sizeof_fmt(0) is
\* '0 bytes' and sizeof_fmt(1) is '1 byte'.
C24_UnitChoice ==
  fmt.out # NoString
    => /\ fmt.num >= 2
            => /\ Pow1024[fmt.out.exponent + 1] <= fmt.num
               /\ fmt.out.exponent = 3 \/ fmt.num < Pow1024[fmt.out.exponent + 2]
               /\ fmt.out.unit = unit_list[fmt.out.exponent + 1].unit
               /\ fmt.out.digits >= Pow10(fmt.out.num_decimals)
               /\ fmt.out.digits < Base * Pow10(fmt.out.num_decimals)
       /\ fmt.num = 0 => (fmt.out.digits = 0 /\ fmt.out.unit = "bytes")
       /\ fmt.num = 1 => (fmt.out.digits = 1 /\ fmt.out.unit = "byte")

\* C25: the string has 0 decimal places for bytes and kB and 2 for MB and
\* every larger unit.
C25_Decimals ==
  fmt.out # NoString
    => fmt.out.num_decimals =
         (IF fmt.out.unit \in {"byte", "bytes", "kB"} THEN 0 ELSE 2)

\* ---------------------------------------------- verbose and set_log_level
\* Bound of the log-level specification: the depth to which calls of
\* decorated functions nest.
DecDepth == 3

NOTSET == 0
logging_types ==
  [DEBUG |-> 10, INFO |-> 20, WARNING |-> 30, ERROR |-> 40, CRITICAL |-> 50]
\* str.upper on the level names callers pass
Upper == [s \in {"debug", "info", "INFO", "WARNING", "ERROR", "CRITICAL", "loud"} |->
            CASE s = "debug" -> "DEBUG" [] s = "info" -> "INFO"
              [] s = "loud" -> "LOUD" [] OTHER -> s]

\* the values of a verbose argument: None, a bool, a str or an int
NoneArg == [type |-> "none", b |-> FALSE, s |-> "", i |-> 0]
BoolArg(b) == [type |-> "bool", b |-> b, s |-> "", i |-> 0]
StrArg(s) == [type |-> "str", b |-> FALSE, s |-> s, i |-> 0]
IntArg(i) == [type |-> "int", b |-> FALSE, s |-> "", i |-> i]
VerboseArgs ==
  {NoneArg} \cup {BoolArg(b) : b \in BOOLEAN} \cup {StrArg(s) : s \in DOMAIN Upper}
    \cup {IntArg(i) : i \in {NOTSET, 10, 40}}

\* set_log_level, lines 440-453, for verbose other than None: the level
\* that logger.setLevel receives, or the ValueError of line 450
LevelOf(verbose) ==
  LET name == IF verbose.type = "bool"
              THEN (IF verbose.b THEN "INFO" ELSE "WARNING")
              ELSE Upper[verbose.s] IN
  IF verbose.type = "int" THEN [raises |-> FALSE, level |-> verbose.i]
  ELSE IF name \in DOMAIN logging_types
       THEN [raises |-> FALSE, level |-> logging_types[name]]
       ELSE [raises |-> TRUE, level |-> NOTSET]

LevelInit ==
  /\ disk = [full |-> NoFile, temp |-> NoFile, other |-> OtherFile]
  /\ stack = [p \in Callers |-> <<>>]
  /\ call = [p \in Callers |-> IdleCall]
  /\ ncalls = 0
  /\ \E l \in {NOTSET, 20, 30} : logger = [level |-> l, handlers |-> <<>>, err |-> "none"]
  /\ dec = <<>>
  /\ bar = Unused /\ fmt = Unused
  /\ environ = Unused /\ config = Unused /\ res = Unused

\* dec, lines 320-324 and 335-336: a decorated function is called without a
\* verbose level; the logger is left alone
DecCallPlain ==
  /\ Len(dec) < DecDepth
  /\ dec' = Append(dec, [restore |-> FALSE, old_level |-> NOTSET,
                         before |-> logger.level])
  /\ logger' = [logger EXCEPT !.err = "none"]
  /\ UNCHANGED <<fetchVars, bar, fmt, environ, config, res>>

\* dec, lines 325-329: old_level = set_log_level(verbose_level, True), then
\* the function is entered; when set_log_level raises, so does the call
DecCall ==
  /\ Len(dec) < DecDepth
  /\ \E v \in VerboseArgs \ {NoneArg} :
       IF LevelOf(v).raises
       THEN /\ logger' = [logger EXCEPT !.err = "ValueError"]
            /\ UNCHANGED dec
       ELSE /\ logger' = [logger EXCEPT !.level = LevelOf(v).level, !.err = "none"]
            /\ dec' = Append(dec, [restore |-> TRUE, old_level |-> logger.level,
                                   before |-> logger.level])
  /\ UNCHANGED <<fetchVars, bar, fmt, environ, config, res>>

\* the body of a decorated function, or the program outside of any, calls
\* set_log_level(verbose) itself
SetLogLevel ==
  /\ \E v \in VerboseArgs \ {NoneArg} :
       logger' = IF LevelOf(v).raises
                 THEN [logger EXCEPT !.err = "ValueError"]
                 ELSE [logger EXCEPT !.level = LevelOf(v).level, !.err = "none"]
  /\ UNCHANGED <<fetchVars, bar, fmt, dec, environ, config, res>>

\* DecRaise without lines 330-332: an exception leaves the level as it is
DecRaiseKeeps ==
  /\ dec # <<>>
  /\ dec' = SubSeq(dec, 1, Len(dec) - 1)
  /\ logger' = [logger EXCEPT !.err = "Exception"]
  /\ UNCHANGED <<fetchVars, bar, fmt, environ, config, res>>

\* dec, lines 330-332: the function raises; set_log_level(old_level), raise
DecRaise ==
  /\ dec # <<>>
  /\ dec' = SubSeq(dec, 1, Len(dec) - 1)
  /\ logger' = [logger EXCEPT
                  !.level = IF dec[Len(dec)].restore
                            THEN LevelOf(IntArg(dec[Len(dec)].old_level)).level
                            ELSE @,
                  !.err = "Exception"]
  /\ UNCHANGED <<fetchVars, bar, fmt, environ, config, res>>

\* dec, lines 333-334 (and 336): the function returns; set_log_level(old_level)
DecReturn ==
  /\ dec # <<>>
  /\ dec' = SubSeq(dec, 1, Len(dec) - 1)
  /\ logger' = [logger EXCEPT
                  !.level = IF dec[Len(dec)].restore
                            THEN LevelOf(IntArg(dec[Len(dec)].old_level)).level
                            ELSE @,
                  !.err = "none"]
  /\ UNCHANGED <<fetchVars, bar, fmt, environ, config, res>>

LevelNext ==
  DecCallPlain \/ DecCall \/ SetLogLevel \/ DecRaise \/ DecReturn

LevelSpec == LevelInit /\ [][LevelNext]_vars

\* C26: when a call of a decorated function with a verbose level other than
\* None ends, by return or by exception, the logger has the level it had
\* just before the call; a call that set_log_level rejects leaves the level
\* unchanged; nested calls with different levels included.
C26_LevelRestored ==
  [][/\ (Len(dec') < Len(dec) /\ dec[Len(dec)].restore)
          => logger'.level = dec[Len(dec)].before
     /\ (Len(dec') = Len(dec) /\ logger'.err = "ValueError")
          => logger'.level = logger.level]_vars

C26_Witness ==
  /\ Len(dec) = 2
  /\ dec[1].restore /\ dec[2].restore
  /\ dec[1].before = 30 /\ dec[2].before = 10 /\ logger.level = 40
  /\ logger.err = "Exception"


\* ------------------------------------------------------------ set_log_file
\* Bounds of the handler specification: the handlers attached before the
\* first call, and the number of calls of set_log_file.
LogHandlers == 3
LogFileCalls == 2

\* a handler of the 'mne' logger: a logging.FileHandler (opened with a mode)
\* or a logging.StreamHandler
Handler(id, kind, mode) == [id |-> id, kind |-> kind, mode |-> mode]

\* list.remove(x), which Logger.removeHandler applies to logger.handlers:
\* the first occurrence of x leaves the list
ListRemove(l, x) ==
  IF \E i \in 1..Len(l) : l[i] = x
  THEN LET k == CHOOSE i \in 1..Len(l) : l[i] = x /\ \A j \in 1..(i - 1) : l[j] # x IN
       SubSeq(l, 1, k - 1) \o SubSeq(l, k + 1, Len(l))
  ELSE l

\* lines 477-481: "for h in handlers: ... logger.removeHandler(h)", where
\* handlers is logger.handlers itself.  The list iterator holds an index
\* into the list that removeHandler shortens: i is the number of elements
\* it has yielded so far.  Returns the handlers left and the ids closed.
RECURSIVE RemoveLoop(_, _, _)
RemoveLoop(handlers, closed, i) ==
  IF i >= Len(handlers) THEN [handlers |-> handlers, closed |-> closed]
  ELSE LET h == handlers[i + 1] IN
       RemoveLoop(ListRemove(handlers, h),
                  IF h.kind = "file" THEN closed \cup {h.id} ELSE closed,
                  i + 1)

\* lines 482-494: the handler the call creates
NewHandler(id, fname, overwrite) ==
  IF fname # "None"
  THEN Handler(id, "file", IF overwrite = "True" THEN "w" ELSE "a")
  ELSE Handler(id, "stream", "none")

HandlerInit ==
  /\ disk = [full |-> NoFile, temp |-> NoFile, other |-> OtherFile]
  /\ stack = [p \in Callers |-> <<>>]
  /\ call = [p \in Callers |-> IdleCall]
  /\ ncalls = 0
  /\ \E n \in 0..LogHandlers :
       \E kinds \in [1..n -> {"file", "stream"}] :
         logger = [level |-> NOTSET, err |-> "none", calls |-> 0, closed |-> {},
                   handlers |-> [i \in 1..n |->
                      Handler(i, kinds[i], IF kinds[i] = "file" THEN "a" ELSE "none")]]
  /\ dec = Unused
  /\ bar = Unused /\ fmt = Unused
  /\ environ = Unused /\ config = Unused /\ res = Unused

\* one call of set_log_file(fname, overwrite=overwrite), lines 476-498;
\* handler LogHandlers + k is the one the k-th call creates
SetLogFile ==
  /\ logger.calls < LogFileCalls
  /\ \E fname \in {"None", "log.txt"}, overwrite \in {"None", "True", "False"} :
       LET left == RemoveLoop(logger.handlers, logger.closed, 0) IN
       logger' = [logger EXCEPT
                    !.handlers = Append(left.handlers,
                                   NewHandler(LogHandlers + logger.calls + 1, fname, overwrite)),
                    !.closed = left.closed,
                    !.calls = @ + 1]
  /\ UNCHANGED <<fetchVars, bar, fmt, dec, environ, config, res>>

HandlerNext == SetLogFile

HandlerSpec == HandlerInit /\ [][HandlerNext]_vars

\* C27: after any call of set_log_file, from any number of handlers
\* attached before, the logger has exactly one handler, the one the call
\* created.
C27_OneHandler ==
  logger.calls > 0 =>
    /\ Len(logger.handlers) = 1
    /\ logger.handlers[1].id = LogHandlers + logger.calls

\* ------------------------------------------------- get_config / set_config
\* Bound of the preference specification: the number of set_config calls
\* that return.
CfgCalls == 3

\* two of known_config_types (lines 549-557), in the order json.dump's
\* sort_keys=True writes them
KeyOrder == <<"MNE_USE_CUDA", "SUBJECTS_DIR">>
Keys == {KeyOrder[i] : i \in 1..Len(KeyOrder)}
CfgValues == {"true", "/subjects"}
HomeVar == "HOME"
EnvValue == "/env"

\* the arguments: a key or a value is a string, None, or (for the type
\* checks of lines 585 and 628-633) something else
KeyArgs == {StrArg(k) : k \in Keys} \cup {IntArg(1)}
ValueArgs == {StrArg(v) : v \in CfgValues} \cup {NoneArg, IntArg(1)}
DefaultArgs == {NoneArg, StrArg("default")}

\* json.dump(config, fid, sort_keys=True, indent=0), line 656: the text of
\* the file is the sequence of "key": "value" members in key order
RECURSIVE Dump(_, _)
Dump(d, i) ==
  IF i > Len(KeyOrder) THEN <<>>
  ELSE (IF KeyOrder[i] \in DOMAIN d THEN <<<<KeyOrder[i], d[KeyOrder[i]]>>>> ELSE <<>>)
       \o Dump(d, i + 1)

\* json.load(fid), lines 598 and 641: the dict of the members of the text
Load(text) ==
  [k \in {text[i][1] : i \in 1..Len(text)} |->
     text[CHOOSE i \in 1..Len(text) : text[i][1] = k][2]]

\* get_config_path, lines 537-545: NoPath when it raises ValueError
NoPath == <<>>
get_config_path(env) ==
  IF HomeVar \in DOMAIN env THEN <<env[HomeVar], ".mne", "mne-python.json">> ELSE NoPath

\* the outcome of a call: the exception raised ("none" when it returns) and
\* the value returned
Outcome(err, val) == [err |-> err, val |-> val]

\* get_config(key, default, raise_error), lines 564-612
get_config(env, cfg, key, default, raise_error) ==
  IF key.type # "str" THEN Outcome("ValueError", NoneArg)
  ELSE IF key.s \in DOMAIN env THEN Outcome("none", StrArg(env[key.s]))
  ELSE IF get_config_path(env) = NoPath THEN Outcome("ValueError", NoneArg)
  ELSE LET d == IF cfg.isfile THEN Load(cfg.text) ELSE <<>>
           key_found == cfg.isfile /\ key.s \in DOMAIN d
           val == IF key_found THEN StrArg(d[key.s]) ELSE default
       IN IF ~key_found /\ raise_error THEN Outcome("KeyError", NoneArg)
          ELSE Outcome("none", val)

\* set_config that starts from an empty dict instead of the stored values
SetConfigFresh(env, cfg, key, value) ==
  IF key.type # "str" THEN [err |-> "ValueError", cfg |-> cfg]
  ELSE IF value.type \notin {"str", "none"} THEN [err |-> "ValueError", cfg |-> cfg]
  ELSE IF get_config_path(env) = NoPath THEN [err |-> "ValueError", cfg |-> cfg]
  ELSE LET d == IF value.type = "none" THEN <<>> ELSE [k \in {key.s} |-> value.s]
       IN [err |-> "none", cfg |-> [isfile |-> TRUE, text |-> Dump(d, 1)]]

\* set_config(key, value), lines 615-656: the exception raised and the
\* config file afterwards
set_config(env, cfg, key, value) ==
  IF key.type # "str" THEN [err |-> "ValueError", cfg |-> cfg]
  ELSE IF value.type \notin {"str", "none"} THEN [err |-> "ValueError", cfg |-> cfg]
  ELSE IF get_config_path(env) = NoPath THEN [err |-> "ValueError", cfg |-> cfg]
  ELSE LET config0 == IF cfg.isfile THEN Load(cfg.text) ELSE <<>>
           config1 ==
             IF value.type = "none"
             THEN [k \in DOMAIN config0 \ {key.s} |-> config0[k]]
             ELSE [k \in DOMAIN config0 \cup {key.s} |->
                     IF k = key.s THEN value.s ELSE config0[k]]
       IN [err |-> "none", cfg |-> [isfile |-> TRUE, text |-> Dump(config1, 1)]]

\* res: the last call, its arguments and outcome, and the set_config calls
\* that have returned so far
NoCall ==
  [op |-> "none", key |-> NoneArg, value |-> NoneArg, default |-> NoneArg,
   raise_error |-> FALSE, out |-> Outcome("none", NoneArg), log |-> <<>>]

CfgInit ==
  /\ disk = [full |-> NoFile, temp |-> NoFile, other |-> OtherFile]
  /\ stack = [p \in Callers |-> <<>>]
  /\ call = [p \in Callers |-> IdleCall]
  /\ ncalls = 0
  /\ bar = Unused /\ fmt = Unused /\ logger = Unused /\ dec = Unused
  /\ \E names \in SUBSET {HomeVar, "SUBJECTS_DIR"} :
       environ = [n \in names |-> IF n = HomeVar THEN "/home" ELSE EnvValue]
  /\ config = [isfile |-> FALSE, text |-> <<>>]
  /\ res = NoCall

GetConfig ==
  /\ \E key \in KeyArgs, default \in DefaultArgs, raise_error \in BOOLEAN :
       res' = [res EXCEPT !.op = "get", !.key = key, !.value = NoneArg,
                          !.default = default, !.raise_error = raise_error,
                          !.out = get_config(environ, config, key, default, raise_error)]
  /\ UNCHANGED <<fetchVars, bar, fmt, logger, dec, environ, config>>

SetConfig ==
  /\ Len(res.log) < CfgCalls
  /\ \E key \in KeyArgs, value \in ValueArgs :
       LET r == set_config(environ, config, key, value) IN
       /\ config' = r.cfg
       /\ res' = [res EXCEPT !.op = "set", !.key = key, !.value = value,
                             !.default = NoneArg, !.raise_error = FALSE,
                             !.out = Outcome(r.err, NoneArg),
                             !.log = IF r.err = "none" THEN Append(@, <<key.s, value>>) ELSE @]
  /\ UNCHANGED <<fetchVars, bar, fmt, logger, dec, environ>>

CfgNext == GetConfig \/ SetConfig

CfgSpec == CfgInit /\ [][CfgNext]_vars

\* the value of the last set_config(key, value) in the log, NoneArg when
\* there is none or the last one deleted the key
RECURSIVE LastSet(_, _)
LastSet(log, k) ==
  IF log = <<>> THEN NoneArg
  ELSE IF log[Len(log)][1] = k THEN log[Len(log)][2]
  ELSE LastSet(SubSeq(log, 1, Len(log) - 1), k)

\* what the round trip promises for get_config(key, default, raise_error)
Promised(env, log, key, default, raise_error) ==
  IF key.s \in DOMAIN env THEN Outcome("none", StrArg(env[key.s]))
  ELSE IF LastSet(log, key.s) # NoneArg THEN Outcome("none", LastSet(log, key.s))
  ELSE IF raise_error THEN Outcome("KeyError", NoneArg)
  ELSE Outcome("none", default)

\* the stored keys other than k are the same in both files
OthersKept(cfg0, cfg1, k) ==
  LET d0 == IF cfg0.isfile THEN Load(cfg0.text) ELSE <<>>
      d1 == IF cfg1.isfile THEN Load(cfg1.text) ELSE <<>>
  IN /\ DOMAIN d0 \ {k} = DOMAIN d1 \ {k}
     /\ \A j \in DOMAIN d0 \ {k} : d0[j] = d1[j]

Deleted(cfg1, k) == cfg1.isfile /\ k \notin DOMAIN Load(cfg1.text)

\* a call of get_config with a string key / of set_config that returned
GotStep == res'.op = "get" /\ res'.key.type = "str"
SetStep == res'.op = "set" /\ Len(res'.log) = Len(res.log) + 1

\* C28 as stated: get_config(key) returns the environment value when key is
\* in the environment, otherwise the value of the last set_config(key, value)
\* not deleted since, otherwise the default (KeyError when raise_error);
\* set_config(key, None) deletes the key and set_config leaves every other
\* stored key unchanged.
C28_RoundTripAsStated ==
  [][/\ GotStep => res'.out = Promised(environ, res.log, res'.key, res'.default,
                                       res'.raise_error)
     /\ SetStep => /\ OthersKept(config, config', res'.key.s)
                   /\ res'.value = NoneArg => Deleted(config', res'.key.s)]_vars

\* C28 amended: the same, where the config file path can be determined
\* (HOME is set); where it cannot, get_config of a key that is not in the
\* environment raises ValueError, as does every set_config.
C28_RoundTrip ==
  [][/\ GotStep =>
          res'.out = IF res'.key.s \notin DOMAIN environ /\ get_config_path(environ) = NoPath
                     THEN Outcome("ValueError", NoneArg)
                     ELSE Promised(environ, res.log, res'.key, res'.default,
                                   res'.raise_error)
     /\ SetStep => /\ OthersKept(config, config', res'.key.s)
                   /\ res'.value = NoneArg => Deleted(config', res'.key.s)
     /\ (res'.op = "set" /\ get_config_path(environ) = NoPath)
          => res'.out.err = "ValueError" /\ config' = config]_vars

\* a value read back after another key was set and a third call deleted it
C28_Witness ==
  /\ res.op = "get" /\ res.key = StrArg("MNE_USE_CUDA")
  /\ res.out = Outcome("none", StrArg("true"))
  /\ Len(res.log) = 3
  /\ res.log[1] = <<"MNE_USE_CUDA", StrArg("true")>>
  /\ res.log[2][1] = "SUBJECTS_DIR" /\ res.log[2][2] # NoneArg
  /\ res.log[3] = <<"SUBJECTS_DIR", NoneArg>>
  /\ "SUBJECTS_DIR" \notin DOMAIN environ
=============================================================================
